---- MODULE Spec2Model ----
(***************************************************************************)
(* AsyncAutocomplete (src/src/AsyncAutocomplete.tsx): a MUI Autocomplete   *)
(* whose options are loaded through TanStack Query, either with useQuery   *)
(* (single page) or with useInfiniteQuery (paginated).                     *)
(*                                                                         *)
(* The model holds the React state of every mounted selector, the shared   *)
(* query cache of the QueryClient and the network calls in flight.  The    *)
(* behaviour of useQuery / useInfiniteQuery that the component relies on   *)
(* (deduplication, refetch of stale data, retry, fetchNextPage) is modelled*)
(* with the options the component passes and the library defaults for the  *)
(* options it leaves out.                                                  *)
(***************************************************************************)
EXTENDS Integers, Sequences, FiniteSets, TLC

(***************************************************************************)
(* Bounds of the model.                                                    *)
(***************************************************************************)
\* number of fetches the observers may start in one behaviour (the retries
\* of a fetch and the pages of a refetch belong to the fetch that started)
MaxFetches == 3
\* number of fetches that meet a failing network call in one behaviour
MaxFailures == 1
\* the backend serves at most this many pages of one collection
MaxPages == 2

(***************************************************************************)
(* Inputs.                                                                 *)
(***************************************************************************)
\* the selector of the page; it is unmounted and mounted again, in either
\* mode, and every instance works on the cache the earlier ones filled
Selectors == {1}
\* `url` props: "u1" is a string, "f1" a function of the page parameter
Urls == {"u1", "f1"}
\* the texts onInputChange can deliver
Texts == {"", "a"}
\* `queryParams` props, as sequences of <<key, value>> in iteration order
NoParams == << >>
ParamMaps == {NoParams}

\* typeof url === 'function'
IsFunction(url) == url \in {"f1", "f2"}

\* absent value of JavaScript (undefined); page parameters are naturals
Undefined == 0 - 1

\* the component's props that reach the data layer
PropsSet ==
    [url : Urls, queryParams : ParamMaps, searchable : BOOLEAN, infinite : BOOLEAN]

\* the configurations that are mounted.  AsyncAutocompleteInfiniteProps
\* admits a url function without `infinite`: neither query of such an
\* instance is ever enabled.
Configurations == PropsSet

\* props of an instance that is not mounted (placeholder)
NoProps ==
    [url |-> "u1", queryParams |-> NoParams, searchable |-> FALSE, infinite |-> FALSE]

(***************************************************************************)
(* Query keys.  TanStack Query identifies a query by the hash of its key,  *)
(* JSON.stringify with object keys sorted: a function in the key is        *)
(* written as null.                                                        *)
(***************************************************************************)
HashUrl(url) == IF IsFunction(url) THEN "null" ELSE url

\* an object is hashed with its keys sorted: the order of the entries of
\* queryParams is lost, nothing else
HashParams(params) == {params[i] : i \in DOMAIN params}

\* baseQueryKey without the push of inputValue
KeyWithoutInputValue(p, text) ==
    << "async-autocomplete", HashUrl(p.url), HashParams(p.queryParams), p.searchable >>
        \o (IF p.searchable THEN << "" >> ELSE << >>)

\* const baseQueryKey = ['async-autocomplete', url, queryParams, searchable];
\* if (searchable) baseQueryKey.push(inputValue);
baseQueryKey(p, text) ==
    << "async-autocomplete", HashUrl(p.url), HashParams(p.queryParams), p.searchable >>
        \o (IF p.searchable THEN << text >> ELSE << >>)

\* const infiniteQueryKey = [...baseQueryKey, 'infinite']
infiniteQueryKey(p, text) == baseQueryKey(p, text) \o << "infinite" >>

\* a key of infiniteQuery: one element longer than the base key
IsInfiniteKey(k) == Len(k) = 5 + (IF k[4] THEN 1 ELSE 0)

(***************************************************************************)
(* URLs.                                                                   *)
(***************************************************************************)
\* typeof url === "string" ? url : url(pageParam)
BaseUrl(url, pageParam) ==
    IF IsFunction(url) THEN << url, pageParam >> ELSE << url, Undefined >>

\* baseUrl.includes('?'): the url functions of the model put the page
\* parameter into a query string, the string urls have none
BaseIncludesQuery(base) == IsFunction(base[1])

\* buildUrl without the test of `searchable`
buildUrlAnyText(baseUrl, params, searchTerm, searchable) ==
    LET search == IF searchTerm # ""
                  THEN << << "search", searchTerm >> >> ELSE << >>
        queryString == search \o params
    IN  IF queryString # << >>
        THEN [base |-> baseUrl,
              sep |-> IF BaseIncludesQuery(baseUrl) THEN "&" ELSE "?",
              query |-> queryString]
        ELSE [base |-> baseUrl, sep |-> "", query |-> << >>]

\* buildUrl: search term first when searchable and non-empty, then every
\* entry of params; '&' when the base already has a '?', else '?'
buildUrl(baseUrl, params, searchTerm, searchable) ==
    LET search == IF searchable /\ searchTerm # ""
                  THEN << << "search", searchTerm >> >> ELSE << >>
        queryString == search \o params
    IN  IF queryString # << >>
        THEN [base |-> baseUrl,
              sep |-> IF BaseIncludesQuery(baseUrl) THEN "&" ELSE "?",
              query |-> queryString]
        ELSE [base |-> baseUrl, sep |-> "", query |-> << >>]

(***************************************************************************)
(* State.                                                                  *)
(***************************************************************************)
VARIABLES
    endpoint,      \* the url and searchable props of the selectors of this page
    mounted,       \* mounted[s]: selector s is mounted
    props,         \* props[s]: the props of the mounted instance
    inputValue,    \* React state inputValue of s
    focusedInput,  \* React state focusedInput of s
    seen,          \* what the last render of s read from infiniteQuery
    cache,         \* the query cache: key -> state of the query
    net,           \* network calls in flight
    nfetch,        \* number of fetches started so far
    nfail,         \* number of fetches that met a failure so far
    issued,        \* issued[s]: a network call was issued for the instance s
    arg,           \* the configurations whose query keys are compared (SpecKey)
    res            \* the keys built for them

vars == << arg, res, endpoint, mounted, props, inputValue, focusedInput, seen, cache, net, nfetch, nfail, issued >>

\* state of a query that was never fetched
NoQuery ==
    [pages |-> << >>, status |-> "pending", cur |-> 0, dir |-> "none",
     failureCount |-> 0, retryCancelled |-> FALSE]

\* the state of the query with key k in the cache c (queryCache.build)
Query(c, k) == IF k \in DOMAIN c THEN c[k] ELSE NoQuery

\* the cache c with the state of k set to q
Put(c, k, q) == [x \in DOMAIN c \cup {k} |-> IF x = k THEN q ELSE c[x]]

(***************************************************************************)
(* The query client.  A query is idle when cur = 0 and fetching otherwise; *)
(* cur is the id of the network call its running fetch is waiting for.     *)
(***************************************************************************)
\* retry: the component passes no `retry` option to useQuery or
\* useInfiniteQuery, so a failed fetch is run again this many times
DefaultRetry == 3

\* the caller's continuation: the page says whether another one follows,
\* and the next page parameter is the number of pages loaded so far
\* getNextPageParam: (...args) => { if (getNextPageParam) return getNextPageParam(...args) }
getNextPageParam(pages) ==
    IF pages[Len(pages)].more THEN Len(pages) ELSE Undefined

hasNextPage(q) == q.pages # << >> /\ getNextPageParam(q.pages) # Undefined
isFetching(q) == q.cur # 0
isFetchingNextPage(q) == isFetching(q) /\ q.dir = "forward"
isLoadingQuery(q) == isFetching(q) /\ q.status = "pending"

\* the part of the state the query client and the network own
World == [cache |-> cache, net |-> net, nfetch |-> nfetch, issued |-> issued]

\* an id for a new call: the least one no call in flight has
FreshId(calls) ==
    CHOOSE i \in 1..(Cardinality(calls) + 1) :
        /\ \A c \in calls : c.id # i
        /\ \A j \in 1..(i - 1) : \E c \in calls : c.id = j

\* fetch(fullUrl): one more network call in flight.  p and text are the
\* props and the inputValue of the render that built the queryFn, acc the
\* pages the running queryFn holds so far, todo the pages it still has to
\* refetch after this one.
Call(w, k, p, text, param, acc, todo, dir) ==
    [id |-> FreshId(w.net), key |-> k, p |-> p, text |-> text,
     param |-> param, acc |-> acc, todo |-> todo, dir |-> dir]

\* w with the state of the query k set to q
SetQuery(w, k, q) == [w EXCEPT !.cache = Put(@, k, q)]

Issue(w, c) == [w EXCEPT !.net = @ \cup {c}]

\* a fetch that a render or a handler of selector s starts, with the
\* network call c
Start(w, s, c) ==
    [Issue(w, c) EXCEPT !.nfetch = @ + 1, !.issued = [@ EXCEPT ![s] = TRUE]]

\* the 'fetch' action of a query: fetching, failure count reset; status
\* goes back to 'pending' only when the query has no data
Fetching(q, id, dir) ==
    [q EXCEPT !.cur = id, !.dir = dir, !.failureCount = 0,
              !.retryCancelled = FALSE,
              !.status = IF q.pages = << >> THEN "pending" ELSE @]

\* the queryFn of regularQuery without the look into the cache
QueryFnWithoutCacheLookup(w, s, k, p, text) ==
    LET q == Query(w.cache, k)
        c == Call(w, k, p, text, Undefined, << >>, 0, "none")
    IN  SetQuery(Start(w, s, c), k, Fetching(q, c.id, "none"))

\* queryFn of regularQuery, run for key k with the closure (p, text) of
\* the render of selector s
RegularQueryFn(w, s, k, p, text) ==
    LET q == Query(w.cache, k) IN
    IF q.pages # << >>
    THEN \* if (cachedData) return cachedData;
         SetQuery(w, k, [q EXCEPT !.status = "success"])
    ELSE IF IsFunction(p.url)
    THEN \* if (typeof url === 'function') return null;
         w
    ELSE LET c == Call(w, k, p, text, Undefined, << >>, 0, "none")
         IN  SetQuery(Start(w, s, c), k, Fetching(q, c.id, "none"))

\* a fetch of infiniteQuery without direction: the first page, or every
\* loaded page again, one after the other, starting from initialPageParam
InfiniteQueryFn(w, s, k, p, text) ==
    LET q == Query(w.cache, k)
        remainingPages == IF q.pages = << >> THEN 1 ELSE Len(q.pages)
        c == Call(w, k, p, text, Undefined, << >>, remainingPages - 1, "none")
    IN  SetQuery(Start(w, s, c), k, Fetching(q, c.id, "none"))

\* what an observer does when its key changes or `enabled` turns true: the
\* data is stale at once (no staleTime is passed), so the query is fetched,
\* unless a fetch of it is already running, which is then shared
ExecuteFetch(w, s, k, p, text) ==
    LET q == Query(w.cache, k) IN
    IF isFetching(q)
    THEN SetQuery(w, k, [q EXCEPT !.retryCancelled = FALSE])
    ELSE IF IsInfiniteKey(k)
    THEN InfiniteQueryFn(w, s, k, p, text)
    ELSE RegularQueryFn(w, s, k, p, text)

\* infiniteQuery.fetchNextPage(): cancelRefetch defaults to true, so a
\* running fetch of a query that has data is abandoned (its network call
\* is not aborted: the queryFn does not read the signal) and a new fetch
\* starts; without a next page parameter it resolves with the data as is
FetchNextPage(w, s, k, p, text) ==
    LET q == Query(w.cache, k) IN
    IF q.pages = << >>
    THEN ExecuteFetch(w, s, k, p, text)
    ELSE LET param == getNextPageParam(q.pages)
             c == Call(w, k, p, text, param, q.pages, 0, "forward")
         IN  IF param = Undefined
             THEN SetQuery(w, k,
                      [q EXCEPT !.cur = 0, !.dir = "none", !.status = "success",
                                !.failureCount = 0, !.retryCancelled = FALSE])
             ELSE SetQuery(Start(w, s, c), k, Fetching(q, c.id, "forward"))

(***************************************************************************)
(* Observers.  Every mounted selector observes its two queries, enabled or *)
(* not.  A fetching query that loses its last observer stops retrying.     *)
(***************************************************************************)
ObservedKeys(m, pr, iv) ==
    UNION { {baseQueryKey(pr[s], iv[s]), infiniteQueryKey(pr[s], iv[s])} :
            s \in {x \in Selectors : m[x]} }

CancelRetry(w, lost) ==
    [w EXCEPT !.cache =
        [k \in DOMAIN @ |->
            IF k \in lost /\ isFetching(@[k])
            THEN [@[k] EXCEPT !.retryCancelled = TRUE] ELSE @[k]]]

\* `enabled` without focusedInput
EnabledWithoutFocus(p, text, focused) ==
    (IF ~p.infinite /\ ~IsFunction(p.url) THEN {baseQueryKey(p, text)} ELSE {})
    \cup
    (IF p.infinite THEN {infiniteQueryKey(p, text)} ELSE {})

\* enabled: focusedInput && !infinite && typeof url === 'string'  (regular)
\* enabled: focusedInput && infinite                             (infinite)
EnabledKeys(p, text, focused) ==
    (IF focused /\ ~p.infinite /\ ~IsFunction(p.url)
     THEN {baseQueryKey(p, text)} ELSE {})
    \cup
    (IF focused /\ p.infinite THEN {infiniteQueryKey(p, text)} ELSE {})

\* the effect of a render of s: each enabled observer whose key is new, or
\* that was disabled in the previous render, fetches its query
Rerender(w, s, p, text, newly) ==
    IF newly = {} THEN w
    ELSE ExecuteFetch(w, s, CHOOSE k \in newly : TRUE, p, text)

\* infiniteQuery.hasNextPage and infiniteQuery.isFetchingNextPage as a
\* render of s reads them; handleScroll uses the values of the last render
Snapshot(m, pr, iv, c, s) ==
    IF m[s] /\ pr[s].infinite
    THEN [hasNextPage |-> hasNextPage(Query(c, infiniteQueryKey(pr[s], iv[s]))),
          isFetchingNextPage |->
              isFetchingNextPage(Query(c, infiniteQueryKey(pr[s], iv[s])))]
    ELSE [hasNextPage |-> FALSE, isFetchingNextPage |-> FALSE]

Commit(w) ==
    /\ w.nfetch <= MaxFetches
    /\ nfetch' = w.nfetch
    /\ cache' = w.cache
    /\ net' = w.net
    /\ issued' = w.issued
    /\ UNCHANGED << arg, res >>

(***************************************************************************)
(* Initial state: nothing mounted, empty cache, idle network.              *)
(***************************************************************************)
Unmounted ==
    /\ mounted = [s \in Selectors |-> FALSE]
    /\ props = [s \in Selectors |-> NoProps]
    /\ inputValue = [s \in Selectors |-> ""]
    /\ focusedInput = [s \in Selectors |-> FALSE]
    /\ seen = [s \in Selectors |-> [hasNextPage |-> FALSE, isFetchingNextPage |-> FALSE]]
    /\ cache = << >>
    /\ net = {}
    /\ nfetch = 0
    /\ nfail = 0
    /\ issued = [s \in Selectors |-> FALSE]

Init ==
    /\ endpoint \in [url : Urls, searchable : BOOLEAN]
    /\ Unmounted
    /\ arg = [fn |-> "none"]
    /\ res = [done |-> FALSE]

(***************************************************************************)
(* Actions.                                                                *)
(***************************************************************************)
\* first render of an instance: useState('') and useState(false); both
\* queries are disabled, so nothing is fetched
Mount(s, p) ==
    /\ ~mounted[s]
    /\ p \in Configurations
    /\ p.url = endpoint.url /\ p.searchable = endpoint.searchable
    /\ mounted' = [mounted EXCEPT ![s] = TRUE]
    /\ props' = [props EXCEPT ![s] = p]
    /\ inputValue' = [inputValue EXCEPT ![s] = ""]
    /\ focusedInput' = [focusedInput EXCEPT ![s] = FALSE]
    /\ LET w == Rerender([World EXCEPT !.issued = [@ EXCEPT ![s] = FALSE]],
                          s, p, "", EnabledKeys(p, "", FALSE))
       IN  /\ Commit(w)
           /\ seen' = [seen EXCEPT ![s] = Snapshot(mounted', props', inputValue', w.cache, s)]
    /\ UNCHANGED << endpoint, nfail >>

\* the instance goes away; the cache and the calls in flight stay
Unmount(s) ==
    /\ mounted[s]
    /\ mounted' = [mounted EXCEPT ![s] = FALSE]
    /\ props' = [props EXCEPT ![s] = NoProps]
    /\ inputValue' = [inputValue EXCEPT ![s] = ""]
    /\ focusedInput' = [focusedInput EXCEPT ![s] = FALSE]
    /\ seen' = [seen EXCEPT ![s] = Snapshot(mounted', props', inputValue', cache, s)]
    /\ LET lost == ObservedKeys(mounted, props, inputValue)
                     \ ObservedKeys(mounted', props', inputValue')
           w == CancelRetry(World, lost)
       IN  /\ cache' = w.cache
           /\ net' = net
           /\ nfetch' = nfetch
    /\ issued' = [issued EXCEPT ![s] = FALSE]
    /\ UNCHANGED << endpoint, nfail, arg, res >>

\* a focus handler that toggles the flag: setFocusedInput(f => !f)
toggleFocus(s) ==
    /\ mounted[s]
    /\ focusedInput' = [focusedInput EXCEPT ![s] = ~focusedInput[s]]
    /\ LET newly == EnabledKeys(props[s], inputValue[s], ~focusedInput[s])
                      \ EnabledKeys(props[s], inputValue[s], focusedInput[s])
           w == Rerender(World, s, props[s], inputValue[s], newly)
       IN  /\ Commit(w)
           /\ seen' = [seen EXCEPT ![s] =
                              Snapshot(mounted, props, inputValue, w.cache, s)]
    /\ UNCHANGED << endpoint, mounted, props, inputValue, nfail >>

\* handleFocus: setFocusedInput(true), then the render that enables the
\* query of the configured mode
handleFocus(s) ==
    /\ mounted[s]
    /\ focusedInput' = [focusedInput EXCEPT ![s] = TRUE]
    /\ LET newly == EnabledKeys(props[s], inputValue[s], TRUE)
                      \ EnabledKeys(props[s], inputValue[s], focusedInput[s])
           w == Rerender(World, s, props[s], inputValue[s], newly)
       IN  /\ Commit(w)
           /\ seen' = IF focusedInput[s] THEN seen
                      ELSE [seen EXCEPT ![s] =
                              Snapshot(mounted, props, inputValue, w.cache, s)]
    /\ UNCHANGED << endpoint, mounted, props, inputValue, nfail >>

\* onInputChange={(_event, newValue) => setInputValue(newValue)}, then the
\* render with the new inputValue
onInputChange(s, newValue) ==
    /\ mounted[s]
    /\ inputValue' = [inputValue EXCEPT ![s] = newValue]
    /\ LET newly == EnabledKeys(props[s], newValue, focusedInput[s])
                      \ EnabledKeys(props[s], inputValue[s], focusedInput[s])
           lost == ObservedKeys(mounted, props, inputValue)
                     \ ObservedKeys(mounted, props, inputValue')
           w == Rerender(CancelRetry(World, lost), s, props[s], newValue, newly)
       IN  /\ Commit(w)
           /\ seen' = IF newValue = inputValue[s] THEN seen
                      ELSE [seen EXCEPT ![s] =
                              Snapshot(mounted, props, inputValue', w.cache, s)]
    /\ UNCHANGED << endpoint, mounted, props, focusedInput, nfail >>

\* the scroll positions the list delivers to onScroll
ListGeometries ==
    { [scrollTop |-> 0, clientHeight |-> 100, scrollHeight |-> 300],
      [scrollTop |-> 149, clientHeight |-> 100, scrollHeight |-> 300],
      [scrollTop |-> 150, clientHeight |-> 100, scrollHeight |-> 300],
      [scrollTop |-> 200, clientHeight |-> 100, scrollHeight |-> 300] }

\* list.scrollTop + list.clientHeight >= list.scrollHeight - 50
ScrollThreshold == 50
NearEnd(list) == list.scrollTop + list.clientHeight >= list.scrollHeight - ScrollThreshold

\* the condition of handleScroll, on the values of the last render
ScrollGate(s, list) ==
    /\ props[s].infinite
    /\ NearEnd(list)
    /\ seen[s].hasNextPage
    /\ ~seen[s].isFetchingNextPage

\* handleScroll.  The list is part of the popup, and the popup opens on a
\* click or a key press in the input, which has the focus then.
handleScroll(s, list) ==
    /\ mounted[s]
    /\ focusedInput[s]
    /\ LET k == infiniteQueryKey(props[s], inputValue[s])
           w == IF ScrollGate(s, list)
                THEN FetchNextPage(World, s, k, props[s], inputValue[s])
                ELSE World
       IN  Commit(w)
    /\ UNCHANGED << endpoint, mounted, props, inputValue, focusedInput, seen, nfail >>

\* the window gets the focus back (refetchOnWindowFocus is left at its
\* default): every enabled observer fetches its query again, the data being
\* stale, and shares the fetch that is running if there is one
RECURSIVE RefetchOnWindowFocus(_, _)
RefetchOnWindowFocus(w, S) ==
    IF S = {} THEN w
    ELSE LET s == CHOOSE x \in S : TRUE
             ks == EnabledKeys(props[s], inputValue[s], mounted[s] /\ focusedInput[s])
         IN  RefetchOnWindowFocus(Rerender(w, s, props[s], inputValue[s], ks), S \ {s})

windowFocus ==
    /\ \E s \in Selectors : mounted[s]
    /\ Commit(RefetchOnWindowFocus(World, Selectors))
    /\ UNCHANGED << endpoint, mounted, props, inputValue, focusedInput, seen, nfail >>

\* the query client notifies the observers asynchronously; the selector
\* renders again with the current state of its queries
Render(s) ==
    /\ mounted[s]
    /\ seen[s] # Snapshot(mounted, props, inputValue, cache, s)
    /\ seen' = [seen EXCEPT ![s] = Snapshot(mounted, props, inputValue, cache, s)]
    /\ UNCHANGED << endpoint, mounted, props, inputValue, focusedInput, cache, net, nfetch, nfail,
                    issued, arg, res >>

\* the URL a call requests
\* const baseUrl = typeof url === "string" ? url : url(pageParam);
\* const fullUrl = buildUrl(baseUrl, queryParams, inputValue, searchable);
fullUrl(c) ==
    buildUrl(BaseUrl(c.p.url, c.param), c.p.queryParams, c.text, c.p.searchable)

\* response.json() of a successful call: the body names the URL it answers
\* and, for a page, says whether another page follows.  The endpoints behind
\* the string urls answer with a top-level array of items, those behind the
\* url functions with an object that holds the array at the path "data".
Body(c, more) ==
    [req |-> fullUrl(c), more |-> more,
     shape |-> IF IsFunction(c.p.url) THEN "object" ELSE "array"]

\* a network call settles with a parsed body.  The queryFn that awaits it
\* goes on: a refetch asks for the next of the loaded pages, otherwise the
\* fetch is over and, when it still is the fetch of the query, the data is
\* stored.  An abandoned fetch goes on as well, but its result is dropped.
RespondOk(c, more) ==
    /\ c \in net
    /\ more => (IsInfiniteKey(c.key) /\ Len(c.acc) + 1 < MaxPages)
    /\ LET q == Query(cache, c.key)
           current == q.cur = c.id
           acc == c.acc \o << Body(c, more) >>
           w0 == [World EXCEPT !.net = @ \ {c}]
           goesOn == c.todo > 0 /\ getNextPageParam(acc) # Undefined
           nxt == Call(World, c.key, c.p, c.text, getNextPageParam(acc),
                       acc, c.todo - 1, c.dir)
           w == IF goesOn
                THEN IF current
                     THEN SetQuery(Issue(w0, nxt), c.key, [q EXCEPT !.cur = nxt.id])
                     ELSE Issue(w0, nxt)
                ELSE IF current
                THEN SetQuery(w0, c.key,
                        [pages |-> acc, status |-> "success", cur |-> 0,
                         dir |-> "none", failureCount |-> 0,
                         retryCancelled |-> FALSE])
                ELSE w0
       IN  Commit(w)
    /\ UNCHANGED << endpoint, mounted, props, inputValue, focusedInput, seen, nfail >>

\* a network call fails (fetch rejects, or response.json() rejects on a
\* malformed body).  The fetch of the query is run again while retries are
\* left and the query is observed; then the query is in error, with the
\* data it had.
RespondError(c) ==
    /\ c \in net
    /\ LET first == ~(Query(cache, c.key).cur = c.id
                       /\ Query(cache, c.key).failureCount > 0)
       IN  /\ first => nfail < MaxFailures
           /\ nfail' = IF first THEN nfail + 1 ELSE nfail
    /\ LET q == Query(cache, c.key)
           current == q.cur = c.id
           w0 == [World EXCEPT !.net = @ \ {c}]
           again == [c EXCEPT !.id = FreshId(net)]
           w == IF ~current THEN w0
                ELSE IF q.failureCount < DefaultRetry /\ ~q.retryCancelled
                THEN SetQuery(Issue(w0, again), c.key,
                        [q EXCEPT !.cur = again.id, !.failureCount = @ + 1])
                ELSE SetQuery(w0, c.key,
                        [q EXCEPT !.cur = 0, !.dir = "none", !.status = "error",
                                  !.failureCount = 0, !.retryCancelled = FALSE])
       IN  Commit(w)
    /\ UNCHANGED << endpoint, mounted, props, inputValue, focusedInput, seen >>

Next ==
    \/ \E s \in Selectors, p \in PropsSet : Mount(s, p)
    \/ \E s \in Selectors : Unmount(s)
    \/ \E s \in Selectors : handleFocus(s)
    \/ \E s \in Selectors, t \in Texts : onInputChange(s, t)
    \/ \E s \in Selectors, l \in ListGeometries : handleScroll(s, l)
    \/ \E s \in Selectors : Render(s)
    \/ windowFocus
    \/ \E c \in net, more \in BOOLEAN : RespondOk(c, more)
    \/ \E c \in net : RespondError(c)

Spec == Init /\ [][Next]_vars

(***************************************************************************)
(* What the selector shows.                                                *)
(***************************************************************************)
\* the items of a parsed body, in the order the backend lists them
Items(body) ==
    << [kind |-> "item", req |-> body.req, n |-> 1],
       [kind |-> "item", req |-> body.req, n |-> 2] >>

\* a value that is no item: undefined, or a body that is no array
NoUrl == [base |-> << "", Undefined >>, sep |-> "", query |-> << >>]
UndefinedValue == [kind |-> "undefined", req |-> NoUrl, n |-> 0]
ObjectValue(body) == [kind |-> "object", req |-> body.req, n |-> 0]

\* getValueFromPath(body, optionsPath) with the path "data": get() finds the
\* array in an object body and nothing in an array body
getValueFromPath(body) ==
    IF body.shape = "object"
    THEN [isArray |-> TRUE, elems |-> Items(body)]
    ELSE [isArray |-> FALSE, elems |-> << UndefinedValue >>]

\* optionsPath ? getValueFromPath(page, optionsPath) : page
Extract(body, optionsPath) ==
    IF optionsPath THEN getValueFromPath(body)
    ELSE IF body.shape = "array"
    THEN [isArray |-> TRUE, elems |-> Items(body)]
    ELSE [isArray |-> FALSE, elems |-> << ObjectValue(body) >>]

\* pages.flatMap(...): an array result is spread, any other result is one
\* element
RECURSIVE flatMap(_, _)
flatMap(pages, optionsPath) ==
    IF pages = << >> THEN << >>
    ELSE Extract(Head(pages), optionsPath).elems \o flatMap(Tail(pages), optionsPath)

\* const options = React.useMemo(...), for the props p, the inputValue text
\* and the cache c, with or without an optionsPath
optionsOf(c, p, text, optionsPath) ==
    LET infiniteData == Query(c, infiniteQueryKey(p, text)).pages
        regularData == Query(c, baseQueryKey(p, text)).pages
    IN  IF p.infinite /\ infiniteData # << >>
        THEN [isArray |-> TRUE, elems |-> flatMap(infiniteData, optionsPath)]
        ELSE IF regularData # << >>
        THEN Extract(regularData[1], optionsPath)
        ELSE [isArray |-> TRUE, elems |-> << >>]

options(s, optionsPath) == optionsOf(cache, props[s], inputValue[s], optionsPath)

\* const isLoading = regularQuery.isLoading || infiniteQuery.isLoading
isLoading(s) ==
    \/ isLoadingQuery(Query(cache, baseQueryKey(props[s], inputValue[s])))
    \/ isLoadingQuery(Query(cache, infiniteQueryKey(props[s], inputValue[s])))

\* the network calls a step issues
Issued == net' \ net

\* the key of the query the selector s fetches, if it is enabled
EnabledKey(s) == EnabledKeys(props[s], inputValue[s], mounted[s] /\ focusedInput[s])

\* the search term a requested URL carries ("" when it carries none)
SearchTerm(req) ==
    IF \E i \in DOMAIN req.query : req.query[i][1] = "search"
    THEN req.query[CHOOSE i \in DOMAIN req.query : req.query[i][1] = "search"][2]
    ELSE ""

\* the query of key k has neither data nor a fetch that runs
Untouched(k) == Query(cache, k).pages = << >> /\ ~isFetching(Query(cache, k))

(***************************************************************************)
(* C1  Focus gating.  A mounted instance that has not been focused has     *)
(* issued no network call, whatever was typed into it.  The focus event    *)
(* that turns focusedInput to true issues exactly one call when the cache  *)
(* has neither data nor a running fetch for the key of the configured      *)
(* mode: the call is for that key and asks for the first page (or the      *)
(* single page).                                                           *)
(***************************************************************************)
C1_Unfocused_NoFetch ==
    \A s \in Selectors : (mounted[s] /\ ~focusedInput[s]) => ~issued[s]

C1_FirstFocus_OneFetch ==
    \A s \in Selectors :
        (mounted[s] /\ ~focusedInput[s] /\ focusedInput'[s]) =>
            LET k == IF props[s].infinite
                     THEN infiniteQueryKey(props[s], inputValue[s])
                     ELSE baseQueryKey(props[s], inputValue[s])
            IN  (Untouched(k) /\ (props[s].infinite \/ ~IsFunction(props[s].url))) =>
                    /\ Cardinality(Issued) = 1
                    /\ \A c \in Issued :
                          c.key = k /\ c.acc = << >> /\ c.todo = 0 /\ c.param = Undefined
                    /\ issued'[s]

C1_FirstFocus_NoData ==
    \A s \in Selectors :
        (mounted[s] /\ ~focusedInput[s] /\ focusedInput'[s]) =>
            LET k == IF props[s].infinite
                     THEN infiniteQueryKey(props[s], inputValue[s])
                     ELSE baseQueryKey(props[s], inputValue[s])
            IN  Query(cache, k).pages = << >> => Cardinality(Issued) = 1

C3_OnlyCurrentKey ==
    \A s \in Selectors, optionsPath \in BOOLEAN :
        (mounted[s] /\ props[s].searchable) =>
            \A i \in DOMAIN options(s, optionsPath).elems :
                LET e == options(s, optionsPath).elems[i]
                IN  e.kind # "undefined" => SearchTerm(e.req) = inputValue[s]

C3_SettledIsShown ==
    \A s \in Selectors, c \in net, optionsPath \in BOOLEAN :
        (/\ mounted[s] /\ c.key \in EnabledKey(s)
         /\ Query(cache, c.key).cur = c.id
         /\ c \notin net'
         /\ Query(cache', c.key).cur = 0
         /\ Query(cache', c.key).status = "success"
         /\ UNCHANGED << props, inputValue >>)
        => \E more \in BOOLEAN :
              LET data == c.acc \o << Body(c, more) >>
              IN  (options(s, optionsPath))' =
                      IF props[s].infinite
                      THEN [isArray |-> TRUE, elems |-> flatMap(data, optionsPath)]
                      ELSE Extract(data[1], optionsPath)

C3_StaleResponseDiscard == [](C3_OnlyCurrentKey) /\ [][C3_SettledIsShown]_vars

\* the current text is "a" and its options are shown, although the
\* response for the earlier text "" came in later, or is still to come
C3_Witness ==
    \E s \in Selectors :
        /\ mounted[s] /\ focusedInput[s] /\ props[s].searchable /\ ~props[s].infinite
        /\ inputValue[s] = "a"
        /\ options(s, FALSE).elems # << >>
        /\ \E c \in net : c.key = baseQueryKey(props[s], "")

(***************************************************************************)
(* C6  Cache hit without refetch, single-page mode.  No network call is    *)
(* issued for a single-page key the cache holds data for, and that data    *)
(* stays as it is: every later request for the key is served from it.      *)
(***************************************************************************)
C6_CacheHit ==
    /\ \A c \in Issued :
          ~IsInfiniteKey(c.key) => Query(cache, c.key).pages = << >>
    /\ \A k \in DOMAIN cache :
          (~IsInfiniteKey(k) /\ cache[k].pages # << >>) =>
              Query(cache', k).pages = cache[k].pages

\* the options of a single-page instance are the ones of the stored data
C6_Served ==
    \A s \in Selectors, optionsPath \in BOOLEAN :
        LET data == Query(cache, baseQueryKey(props[s], inputValue[s])).pages
        IN  (mounted[s] /\ ~props[s].infinite /\ data # << >>) =>
                options(s, optionsPath) = Extract(data[1], optionsPath)

C6_CacheHitNoRefetch == [](C6_Served) /\ [][C6_CacheHit]_vars

\* an instance was focused, shows the options of its key and has issued no
\* network call: an earlier instance had loaded them
C6_Witness ==
    \E s \in Selectors :
        /\ mounted[s] /\ focusedInput[s] /\ ~props[s].infinite /\ ~issued[s]
        /\ options(s, FALSE).elems # << >>
        /\ nfetch = 1 /\ net = {}

(***************************************************************************)
(* C2  Cache dedup.  For every query key at most one network call is in    *)
(* flight at any time, and a trigger for a key whose fetch has not settled *)
(* issues no call.                                                         *)
(***************************************************************************)
C2_OneInFlightPerKey ==
    \A c \in net, d \in net : c.key = d.key => c = d

C2_SharedFetch ==
    \A c \in Issued : \A d \in net \cap net' : d.key # c.key

C2_CacheDedup == [](C2_OneInFlightPerKey) /\ [][C2_SharedFetch]_vars

(***************************************************************************)
(* C4  Sequential pagination.  A next-page call is issued only while the   *)
(* query has a next page and no call for the same key is outstanding, be   *)
(* it for the first page, for an earlier next page or for a refetch of the *)
(* loaded pages; so two scroll events handled by the same render start one *)
(* next-page fetch at most.                                                *)
(***************************************************************************)
C4_NextPageStep ==
    \A c \in Issued :
        c.dir = "forward" =>
            /\ hasNextPage(Query(cache, c.key))
            /\ \A d \in net : d.key # c.key

C4_SequentialPagination == [][C4_NextPageStep]_vars

(***************************************************************************)
(* C7  Append-only pages.  The pages loaded for a key of infiniteQuery     *)
(* only grow: in every step the sequence before is a prefix of the         *)
(* sequence after, which is longer by one page at most, and no call asks   *)
(* again for a page of a key that has pages.                               *)
(***************************************************************************)
C7_PagesStep ==
    \A k \in DOMAIN cache :
        (IsInfiniteKey(k) /\ cache[k].pages # << >>) =>
            LET old == cache[k].pages
                new == Query(cache', k).pages
            IN  /\ Len(old) <= Len(new) /\ Len(new) <= Len(old) + 1
                /\ SubSeq(new, 1, Len(old)) = old
                /\ \A c \in Issued : c.key = k => c.dir = "forward"

C7_AppendOnlyPages == [][C7_PagesStep]_vars

(***************************************************************************)
(* C8  Pagination order.  The options of a paginated instance are the      *)
(* concatenation, in page order, of what each loaded page of its           *)
(* infiniteQuery yields.                                                   *)
(***************************************************************************)
C8_PaginationOrder ==
    \A s \in Selectors, optionsPath \in BOOLEAN :
        (mounted[s] /\ props[s].infinite) =>
            options(s, optionsPath).elems =
                flatMap(Query(cache, infiniteQueryKey(props[s], inputValue[s])).pages,
                        optionsPath)

(***************************************************************************)
(* C9  Stale-if-error.  When the fetch of the enabled query of an instance *)
(* ends in the error status, the instance is not loading any more, its     *)
(* options are the ones it had, and the data stored for the key is the     *)
(* data it had.                                                            *)
(***************************************************************************)
C9_FailureStep ==
    \A s \in Selectors : \A k \in EnabledKey(s), optionsPath \in BOOLEAN :
        (/\ isFetching(Query(cache, k))
         /\ ~isFetching(Query(cache', k))
         /\ Query(cache', k).status = "error"
         /\ UNCHANGED << mounted, props, inputValue >>)
        => /\ ~(isLoading(s))'
           /\ (options(s, optionsPath))' = options(s, optionsPath)
           /\ Query(cache', k).pages = Query(cache, k).pages

C9_StaleIfError == [][C9_FailureStep]_vars

(***************************************************************************)
(* C10  No automatic retry.  A network call that ends is never replaced by *)
(* the same call again: only an event of the selector, or the next page of *)
(* a running fetch, puts a call in flight.                                 *)
(***************************************************************************)
C10_NoRepeat ==
    \A c \in net \ net', d \in Issued : d # [c EXCEPT !.id = d.id]

C10_NoAutomaticRetry == [][C10_NoRepeat]_vars

(***************************************************************************)
(* Query keys on their own: two configurations and the keys the component  *)
(* builds for them.                                                        *)
(***************************************************************************)
KeyUrls == {"u1", "u2", "f1", "f2"}
KeyParamMaps ==
    { << >>,
      << << "k", "1" >> >>,
      << << "k", "2" >> >>,
      << << "k", "1" >>, << "j", "1" >> >> }
KeyPropsSet ==
    [url : KeyUrls, queryParams : KeyParamMaps, searchable : BOOLEAN, infinite : BOOLEAN]

InitKey ==
    /\ endpoint = [url |-> "u1", searchable |-> FALSE]
    /\ Unmounted
    /\ arg \in [fn : {"queryKey"}, a : KeyPropsSet, b : KeyPropsSet, text : Texts, other : Texts]
    /\ arg.a.infinite = arg.b.infinite
    /\ res = [done |-> FALSE]

\* the two instances render: each builds the key of its mode
QueryKeys ==
    /\ ~res.done
    /\ res' = [done |-> TRUE,
               ka |-> IF arg.a.infinite THEN infiniteQueryKey(arg.a, arg.text)
                      ELSE baseQueryKey(arg.a, arg.text),
               kb |-> IF arg.b.infinite THEN infiniteQueryKey(arg.b, arg.other)
                      ELSE baseQueryKey(arg.b, arg.other)]
    /\ UNCHANGED << arg, endpoint, mounted, props, inputValue, focusedInput, seen,
                    cache, net, nfetch, nfail, issued >>

NextKey == QueryKeys

SpecKey == InitKey /\ [][NextKey]_vars

\* the entries of queryParams, as a set
Entries(params) == {params[i] : i \in DOMAIN params}

\* the two maps differ in one entry: the value of one key, or one key that
\* only one of them has
OneEntryDiffers(m, n) ==
    /\ Entries(m) # Entries(n)
    /\ \E key \in {"k", "j"} :
          {e \in Entries(m) : e[1] # key} = {e \in Entries(n) : e[1] # key}

\* the number of the components {url, queryParams, searchable, search text
\* while searchable} in which the two configurations differ
Differences ==
    (IF arg.a.url # arg.b.url THEN 1 ELSE 0)
    + (IF arg.a.queryParams # arg.b.queryParams THEN 1 ELSE 0)
    + (IF arg.a.searchable # arg.b.searchable THEN 1 ELSE 0)
    + (IF arg.text # arg.other THEN 1 ELSE 0)

DifferInExactlyOne ==
    /\ Differences = 1
    /\ arg.a.queryParams # arg.b.queryParams
           => OneEntryDiffers(arg.a.queryParams, arg.b.queryParams)
    /\ arg.text # arg.other => arg.a.searchable

(***************************************************************************)
(* C5  Key sensitivity.  Two configurations that differ in exactly one of  *)
(* the url, one entry of queryParams, the searchable flag and the search   *)
(* text of a searchable selector have different query keys.                *)
(***************************************************************************)
C5_KeySensitivity ==
    (arg.fn = "queryKey" /\ res.done /\ DifferInExactlyOne) => res.ka # res.kb

(***************************************************************************)
(* C14  Unresolvable optionsPath.  With an optionsPath configured, the     *)
(* options are always a list of items: when the path cannot be traversed   *)
(* in a response the options are empty (single page) or hold nothing for   *)
(* that page (paginated), never undefined and never holding undefined.     *)
(***************************************************************************)
C14_UnresolvablePath ==
    \A s \in Selectors :
        mounted[s] =>
            /\ options(s, TRUE).isArray
            /\ \A i \in DOMAIN options(s, TRUE).elems :
                  options(s, TRUE).elems[i].kind = "item"

(***************************************************************************)
(* C15  Searchable gating.  A call of a selector that is not searchable    *)
(* carries no search parameter, and typing into such a selector changes no *)
(* query key and issues no call.  A call of a searchable selector carries  *)
(* search=<text> with the text of its key, first in the query string, and  *)
(* no search parameter when that text is empty; so every page stored under *)
(* a key was requested with the search text of the key.                    *)
(***************************************************************************)
HasSearch(req) == \E i \in DOMAIN req.query : req.query[i][1] = "search"

KeyText(k) == IF k[4] THEN k[5] ELSE ""

C15_Calls ==
    \A c \in net :
        LET req == fullUrl(c) IN
        /\ ~c.p.searchable => ~HasSearch(req)
        /\ c.p.searchable =>
              /\ c.key[5] = c.text
              /\ c.text = "" => ~HasSearch(req)
              /\ c.text # "" =>
                    /\ req.query[1] = << "search", c.text >>
                    /\ \A i \in DOMAIN req.query : i > 1 => req.query[i][1] # "search"

C15_Stored ==
    \A k \in DOMAIN cache : \A i \in DOMAIN cache[k].pages :
        /\ SearchTerm(cache[k].pages[i].req) = KeyText(k)
        /\ HasSearch(cache[k].pages[i].req) <=> KeyText(k) # ""

C15_Typing ==
    \A s \in Selectors :
        (/\ mounted[s] /\ mounted'[s] /\ ~props[s].searchable
         /\ inputValue'[s] # inputValue[s])
        => /\ Issued = {}
           /\ baseQueryKey(props'[s], inputValue'[s]) = baseQueryKey(props[s], inputValue[s])
           /\ infiniteQueryKey(props'[s], inputValue'[s])
                  = infiniteQueryKey(props[s], inputValue[s])

C15_SearchableGating == [](C15_Calls /\ C15_Stored) /\ [][C15_Typing]_vars

\* a searchable selector asks for the text "a" while the data it loaded for
\* the empty text is stored
C15_Witness ==
    \E s \in Selectors :
        /\ mounted[s] /\ focusedInput[s] /\ props[s].searchable /\ inputValue[s] = "a"
        /\ \E c \in net : c.text = "a" /\ HasSearch(fullUrl(c))
        /\ \E k \in DOMAIN cache : KeyText(k) = "" /\ cache[k].pages # << >>

(***************************************************************************)
(* C18  One-way focus.  focusedInput is false after the mount and, once a  *)
(* focus event has set it, stays true in every later state of the mounted  *)
(* instance, whatever happens (typing, scroll, responses, failures, window *)
(* focus; a blur has no handler and changes nothing): the query of the     *)
(* mode, once enabled, is never disabled.                                  *)
(***************************************************************************)
C18_StartsFalse ==
    \A s \in Selectors : (~mounted[s] /\ mounted'[s]) => ~focusedInput'[s]

C18_StaysTrue ==
    \A s \in Selectors :
        (mounted[s] /\ mounted'[s] /\ focusedInput[s]) =>
            /\ focusedInput'[s]
            /\ EnabledKey(s) # {} => (EnabledKey(s))' # {}

C18_Initially == \A s \in Selectors : ~mounted[s] => ~focusedInput[s]

C18_OneWayFocus == [](C18_Initially) /\ [][C18_StartsFalse /\ C18_StaysTrue]_vars

\* the instance is still focused after it typed, fetched twice and got a
\* response
C18_Witness ==
    \E s \in Selectors :
        /\ mounted[s] /\ focusedInput[s] /\ inputValue[s] = "a"
        /\ nfetch >= 2 /\ nfail = 1
        /\ \E k \in DOMAIN cache : cache[k].pages # << >>

(***************************************************************************)
(* C19  Mode exclusivity.  At most one of the two queries of an instance   *)
(* is enabled; a call is issued under the base key when infinite is false  *)
(* and under the infinite key when it is true; the options are derived     *)
(* from the data stored under the key of the mode and from nothing else.   *)
(***************************************************************************)
ModeKey(s) ==
    IF props[s].infinite THEN infiniteQueryKey(props[s], inputValue[s])
    ELSE baseQueryKey(props[s], inputValue[s])

\* the cache with nothing but the entry of key k
Only(c, k) == [x \in DOMAIN c \cap {k} |-> c[x]]

C19_OneMode ==
    \A s \in Selectors :
        mounted[s] =>
            /\ Cardinality(EnabledKey(s)) <= 1
            /\ EnabledKey(s) \subseteq {ModeKey(s)}
            /\ \A optionsPath \in BOOLEAN :
                  options(s, optionsPath) =
                      optionsOf(Only(cache, ModeKey(s)), props[s], inputValue[s], optionsPath)

C19_IssuedForMode ==
    \A c \in Issued : IsInfiniteKey(c.key) <=> c.p.infinite

C19_ModeExclusivity == [](C19_OneMode) /\ [][C19_IssuedForMode]_vars

(***************************************************************************)
(* The current value and the options: findOptionByValue and                *)
(* isOptionEqualToValue on their own.  A JavaScript string or number is    *)
(* << type, text >>, the text of a number being its decimal form: String() *)
(* and toString() keep the text and drop the type, === compares both.      *)
(***************************************************************************)
MaxOptions == 2
MaxValues == 2

Scalars ==
    { << "number", "0" >>, << "number", "1" >>, << "number", "2" >>,
      << "string", "1" >>, << "string", "" >> }

\* the value fields the loaded options have
OptionIds ==
    { << "number", "0" >>, << "number", "1" >>, << "string", "1" >>, << "string", "" >> }

\* an option: its value field and its label
OptionSet == [id : OptionIds, label : {"x", "y"}]

OptionLists == UNION { [1..n -> OptionSet] : n \in 0..MaxOptions }

\* the `value` prop: null, undefined, a scalar or a list of scalars
ValueSet ==
    { [kind |-> "null", items |-> << >>], [kind |-> "undefined", items |-> << >>] }
    \cup { [kind |-> "scalar", items |-> << x >>] : x \in Scalars }
    \cup { [kind |-> "list", items |-> l] :
              l \in UNION { [1..n -> Scalars] : n \in 0..MaxValues } }

typeof(x) == x[1]
String(x) == x[2]

\* !val
Falsy(val) ==
    \/ val.kind \in {"null", "undefined"}
    \/ val.kind = "scalar" /\ val.items[1] \in { << "number", "0" >>, << "string", "" >> }

\* getValueFromPath(option, valueField)
valueOf(option) == option.id

\* array.filter(test), for a test given as the set of the elements it accepts
RECURSIVE filter(_, _)
filter(list, accepted) ==
    IF list = << >> THEN << >>
    ELSE (IF Head(list) \in accepted THEN << Head(list) >> ELSE << >>)
         \o filter(Tail(list), accepted)

\* array.includes(x): strict comparison with the elements
includes(list, x) == \E i \in DOMAIN list : list[i] = x

NullResult == [kind |-> "null", items |-> << >>]

\* findOptionByValue(val) on the loaded options: null, one option or a list
findOptionByValue(opts, val) ==
    IF Falsy(val) THEN NullResult
    ELSE IF val.kind = "scalar"
    THEN LET found == filter(opts, {o \in OptionSet : String(valueOf(o)) = String(val.items[1])})
         IN  IF found = << >> THEN NullResult
             ELSE [kind |-> "one", items |-> << Head(found) >>]
    ELSE IF val.items # << >> /\ typeof(val.items[1]) = "string"
    THEN [kind |-> "list",
          items |-> filter(opts,
                       {o \in OptionSet : includes(val.items, << "string", String(valueOf(o)) >>)})]
    ELSE IF val.items # << >> /\ typeof(val.items[1]) = "number"
    THEN [kind |-> "list",
          items |-> filter(opts, {o \in OptionSet : includes(val.items, valueOf(o))})]
    ELSE \* return val as T[]: the empty list
         [kind |-> "list", items |-> << >>]

\* isOptionEqualToValue(option) for the `value` prop
isOptionEqualToValue(option, value) ==
    IF Falsy(value) THEN FALSE
    ELSE IF value.kind = "scalar"
    THEN String(valueOf(option)) = String(value.items[1])
    ELSE \E i \in DOMAIN value.items : String(valueOf(option)) = String(value.items[i])

InitValue ==
    /\ endpoint = [url |-> "u1", searchable |-> FALSE]
    /\ Unmounted
    /\ arg \in [fn : {"value"}, options : OptionLists, value : ValueSet]
    /\ res = [resolved |-> FALSE, found |-> NullResult, asked |-> FALSE, equal |-> << >>]

\* value={findOptionByValue(value)}
ResolveValue ==
    /\ ~res.resolved
    /\ res' = [res EXCEPT !.resolved = TRUE,
                          !.found = findOptionByValue(arg.options, arg.value)]
    /\ UNCHANGED << arg, endpoint, mounted, props, inputValue, focusedInput, seen,
                    cache, net, nfetch, nfail, issued >>

\* Autocomplete asks isOptionEqualToValue for every option of the list
HighlightOptions ==
    /\ ~res.asked
    /\ res' = [res EXCEPT !.asked = TRUE, !.equal =
                  [i \in DOMAIN arg.options |-> isOptionEqualToValue(arg.options[i], arg.value)]]
    /\ UNCHANGED << arg, endpoint, mounted, props, inputValue, focusedInput, seen,
                    cache, net, nfetch, nfail, issued >>

NextValue == ResolveValue \/ HighlightOptions

SpecValue == InitValue /\ [][NextValue]_vars

\* the options whose stringified value field is the stringified form of a
\* member of the list of scalars, in the order of the options
Matching(opts, scalars) ==
    filter(opts, {o \in OptionSet :
                     \E i \in DOMAIN scalars : String(valueOf(o)) = String(scalars[i])})

(***************************************************************************)
(* C11  Scalar selection.  For a scalar value, 0 and the empty string      *)
(* included, the resolver returns the first option whose stringified value *)
(* field equals the stringified value, and null when there is none.        *)
(***************************************************************************)
C11_ScalarSelection ==
    (arg.fn = "value" /\ res.resolved /\ arg.value.kind = "scalar") =>
        LET m == Matching(arg.options, arg.value.items)
        IN  res.found = IF m = << >> THEN NullResult
                        ELSE [kind |-> "one", items |-> << Head(m) >>]

(***************************************************************************)
(* C12  List selection.  For a list of scalars, strings, numbers or both,  *)
(* the resolver returns exactly the options whose stringified value field  *)
(* is the stringified form of a member of the list, in options order.      *)
(***************************************************************************)
C12_ListSelection ==
    (arg.fn = "value" /\ res.resolved /\ arg.value.kind = "list") =>
        res.found = [kind |-> "list", items |-> Matching(arg.options, arg.value.items)]

(***************************************************************************)
(* C13  Equality predicate.  The predicate is true for an option exactly   *)
(* when its stringified value field equals the stringified scalar value,   *)
(* or the stringified form of a member of the list value; it is false for  *)
(* null, undefined and the empty list.                                     *)
(***************************************************************************)
C13_EqualityPredicate ==
    (arg.fn = "value" /\ res.asked) =>
        \A i \in DOMAIN arg.options :
            res.equal[i] <=>
                \E j \in DOMAIN arg.value.items :
                    String(valueOf(arg.options[i])) = String(arg.value.items[j])

(***************************************************************************)
(* C20  Resolver and predicate agree.  Every option the resolver returns   *)
(* is one the predicate reports equal to the value, and for a list value   *)
(* every option the predicate reports equal is in the resolved list.       *)
(***************************************************************************)
C20_ResolverAgrees ==
    (arg.fn = "value" /\ res.resolved /\ res.asked
        /\ arg.value.kind \in {"scalar", "list"}) =>
        /\ \A i \in DOMAIN res.found.items :
              \E j \in DOMAIN arg.options :
                  arg.options[j] = res.found.items[i] /\ res.equal[j]
        /\ arg.value.kind = "list" =>
              \A j \in DOMAIN arg.options :
                  res.equal[j] => includes(res.found.items, arg.options[j])

(***************************************************************************)
(* buildUrl on its own, on text: a string is the sequence of its           *)
(* characters.                                                             *)
(***************************************************************************)
MaxTextLen == 2

\* the characters a typed text is made of
TextChars == {"a", " ", "&"}

SearchTexts == UNION { [1..n -> TextChars] : n \in 0..MaxTextLen }

\* base URLs: without a query, with an empty one, with a page parameter
BaseUrls ==
    { << "h", "/", "x" >>, << "h", "/", "x", "?" >>,
      << "h", "/", "x", "?", "p", "=", "1" >> }

\* `queryParams` objects as the sequence Object.entries yields; a value is
\* << type, text >>, a string or a number
QueryParamSets ==
    { << >>,
      << [key |-> << "k" >>, value |-> << "string", << "a", " ", "&" >> >>] >>,
      << [key |-> << "k" >>, value |-> << "number", << "1", "0" >> >>] >>,
      << [key |-> << "z" >>, value |-> << "number", << "1" >> >>],
         [key |-> << "b" >>, value |-> << "string", << "a" >> >>] >> }

\* the text without any encoding
encodeNothing(str) == str

\* the application/x-www-form-urlencoded byte serializer, which
\* URLSearchParams.toString() applies to every name and value
encodeChar(c) ==
    CASE c = " " -> << "+" >>
      [] c = "&" -> << "%", "2", "6" >>
      [] c = "=" -> << "%", "3", "D" >>
      [] c = "?" -> << "%", "3", "F" >>
      [] c = "+" -> << "%", "2", "B" >>
      [] c = "%" -> << "%", "2", "5" >>
      [] OTHER -> << c >>

RECURSIVE encode(_)
encode(str) ==
    IF str = << >> THEN << >> ELSE encodeChar(Head(str)) \o encode(Tail(str))

\* searchParams.append(name, value): one more entry at the end
append(searchParams, name, value) == Append(searchParams, << name, value >>)

\* Object.entries(params).forEach(([key, value]) =>
\*     searchParams.append(key, value.toString()))
RECURSIVE appendEntries(_, _)
appendEntries(searchParams, params) ==
    IF params = << >> THEN searchParams
    ELSE appendEntries(append(searchParams, Head(params).key, Head(params).value[2]),
                       Tail(params))

\* searchParams.toString(): name=value pairs joined with '&'
RECURSIVE toString(_)
toString(searchParams) ==
    IF searchParams = << >> THEN << >>
    ELSE encode(Head(searchParams)[1]) \o << "=" >> \o encode(Head(searchParams)[2])
         \o (IF Tail(searchParams) = << >> THEN << >>
             ELSE << "&" >> \o toString(Tail(searchParams)))

\* baseUrl.includes('?')
includesChar(str, c) == \E i \in DOMAIN str : str[i] = c

\* buildUrl(baseUrl, params, searchTerm, searchable), the string it returns
buildUrlString(baseUrl, params, searchTerm, searchable) ==
    LET withSearch == IF searchable /\ searchTerm # << >>
                      THEN append(<< >>, << "s", "e", "a", "r", "c", "h" >>, searchTerm)
                      ELSE << >>
        queryString == toString(appendEntries(withSearch, params))
    IN  IF queryString # << >>
        THEN baseUrl \o (IF includesChar(baseUrl, "?") THEN << "&" >> ELSE << "?" >>)
                     \o queryString
        ELSE baseUrl

InitUrl ==
    /\ endpoint = [url |-> "u1", searchable |-> FALSE]
    /\ Unmounted
    /\ arg \in [fn : {"buildUrl"}, baseUrl : BaseUrls, params : QueryParamSets,
                searchTerm : SearchTexts, searchable : BOOLEAN]
    /\ res = [done |-> FALSE, url |-> << >>]

\* const fullUrl = buildUrl(baseUrl, queryParams, inputValue, searchable)
BuildUrl ==
    /\ ~res.done
    /\ res' = [done |-> TRUE,
               url |-> buildUrlString(arg.baseUrl, arg.params, arg.searchTerm,
                                      arg.searchable)]
    /\ UNCHANGED << arg, endpoint, mounted, props, inputValue, focusedInput, seen,
                    cache, net, nfetch, nfail, issued >>

NextUrl == BuildUrl

SpecUrl == InitUrl /\ [][NextUrl]_vars

\* what a server reads from a query string: the text is cut at every '&',
\* each piece at its first '=', and both halves are decoded ('+' is a
\* space, %XX a character)
RECURSIVE Pieces(_, _)
Pieces(str, c) ==
    IF ~includesChar(str, c) THEN << str >>
    ELSE LET i == CHOOSE j \in DOMAIN str :
                      str[j] = c /\ \A l \in 1..(j - 1) : str[l] # c
         IN  << SubSeq(str, 1, i - 1) >> \o Pieces(SubSeq(str, i + 1, Len(str)), c)

Escaped(a, b) ==
    CASE << a, b >> = << "2", "6" >> -> "&"
      [] << a, b >> = << "3", "D" >> -> "="
      [] << a, b >> = << "3", "F" >> -> "?"
      [] << a, b >> = << "2", "B" >> -> "+"
      [] << a, b >> = << "2", "5" >> -> "%"
      [] << a, b >> = << "2", "0" >> -> " "
      [] OTHER -> "!"

RECURSIVE Decoded(_)
Decoded(str) ==
    IF str = << >> THEN << >>
    ELSE IF Head(str) = "+" THEN << " " >> \o Decoded(Tail(str))
    ELSE IF Head(str) = "%" /\ Len(str) >= 3
    THEN << Escaped(str[2], str[3]) >> \o Decoded(SubSeq(str, 4, Len(str)))
    ELSE << Head(str) >> \o Decoded(Tail(str))

ParsedPair(piece) ==
    LET halves == Pieces(piece, "=")
    IN  << Decoded(halves[1]), IF Len(halves) = 2 THEN Decoded(halves[2]) ELSE << "!" >> >>

ParsedQuery(str) ==
    LET pieces == Pieces(str, "&") IN [i \in DOMAIN pieces |-> ParsedPair(pieces[i])]

\* the entries the URL has to carry: search first, when searchable and the
\* text is not empty, then the entries of params in their order
Expected ==
    (IF arg.searchable /\ arg.searchTerm # << >>
     THEN << << << "s", "e", "a", "r", "c", "h" >>, arg.searchTerm >> >> ELSE << >>)
    \o [i \in DOMAIN arg.params |-> << arg.params[i].key, arg.params[i].value[2] >>]

Count(str, c) == Cardinality({i \in DOMAIN str : str[i] = c})

(***************************************************************************)
(* C16  URL building.  buildUrl returns the base as it is when there is    *)
(* nothing to append.  Otherwise it returns the base, then '&' when the    *)
(* base contains a '?' and '?' when it does not, so that no second '?'     *)
(* appears, then the query string: read back, the query string holds the   *)
(* search text first, exactly when searchable is true and the text is not  *)
(* empty, then every entry of params in its order.  Names and values are   *)
(* form-urlencoded: a space is written as '+', the reserved characters as  *)
(* %XX.                                                                    *)
(***************************************************************************)
C16_UrlBuilding ==
    (arg.fn = "buildUrl" /\ res.done) =>
        IF Expected = << >> THEN res.url = arg.baseUrl
        ELSE LET n == Len(arg.baseUrl)
                 sep == IF includesChar(arg.baseUrl, "?") THEN "&" ELSE "?"
                 queryString == SubSeq(res.url, n + 2, Len(res.url))
             IN  /\ Len(res.url) > n + 1
                 /\ SubSeq(res.url, 1, n) = arg.baseUrl
                 /\ res.url[n + 1] = sep
                 /\ Count(res.url, "?") = 1
                 /\ ~includesChar(queryString, " ")
                 /\ ParsedQuery(queryString) = Expected

\* a search text with a space and a '&', appended with '&' to a base that
\* has a query, before an entry of params
C16_Witness ==
    /\ arg.fn = "buildUrl" /\ res.done
    /\ arg.searchable /\ arg.searchTerm = << " ", "&" >>
    /\ includesChar(arg.baseUrl, "?") /\ Len(arg.params) = 2
    /\ res.url # arg.baseUrl

\* percent-encoding: as the form encoding, but a space is %20
RECURSIVE PercentEncoded(_)
PercentEncoded(str) ==
    IF str = << >> THEN << >>
    ELSE (IF Head(str) = " " THEN << "%", "2", "0" >> ELSE encodeChar(Head(str)))
         \o PercentEncoded(Tail(str))

\* C16 as it is worded: the search text is percent-encoded in the URL
C16_PercentEncodedSearch ==
    (arg.fn = "buildUrl" /\ res.done /\ arg.searchable /\ arg.searchTerm # << >>) =>
        LET n == Len(arg.baseUrl)
            text == << "s", "e", "a", "r", "c", "h", "=" >> \o PercentEncoded(arg.searchTerm)
        IN  /\ Len(res.url) >= n + 1 + Len(text)
            /\ SubSeq(res.url, n + 2, n + 1 + Len(text)) = text

(***************************************************************************)
(* Selection: the selector with the handler of Autocomplete's onChange.    *)
(* arg is the event the handler got (the chosen option, or options, and    *)
(* whether the host passed an onChange prop), res the calls of the host's  *)
(* onChange the handler made for it.                                       *)
(***************************************************************************)
MaxChosen == 2

\* getValueFromPath(item, valueField), valueField being the path to the
\* number the item has in the body
valueFieldOf(item) == item.n

\* what Autocomplete hands to its onChange: null, one of the options, or
\* the list of chosen options (none, the first, or the first ones)
Choices(list) ==
    { [kind |-> "null", items |-> << >>] }
    \cup { [kind |-> "one", items |-> << list[i] >>] : i \in DOMAIN list }
    \cup { [kind |-> "list", items |-> SubSeq(list, 1, n)] :
              n \in 0..(IF Len(list) < MaxChosen THEN Len(list) ELSE MaxChosen) }

\* a handler that calls onChange for each chosen option on its own
reportEach(option, onChange) ==
    IF option.kind # "null" /\ onChange
    THEN [i \in DOMAIN option.items |->
             [values |-> << valueFieldOf(option.items[i]) >>,
              option |-> [kind |-> "one", items |-> << option.items[i] >>]]]
    ELSE << >>

\* the body of handleChange: the calls of onChange it makes
onChangeCalls(option, onChange) ==
    IF option.kind # "null" /\ onChange
    THEN \* Array.isArray(option) ? option.map(item => getValueFromPath(item, valueField))
         \*                       : getValueFromPath(option, valueField)
         << [values |-> [i \in DOMAIN option.items |-> valueFieldOf(option.items[i])],
             option |-> option] >>
    ELSE << >>

\* handleChange(_event, option): the options are a list of items, one or
\* some of which the user chose
handleChange(s, option, onChange) ==
    /\ mounted[s]
    /\ focusedInput[s]
    /\ \E optionsPath \in BOOLEAN :
          /\ options(s, optionsPath).isArray
          /\ \A i \in DOMAIN options(s, optionsPath).elems :
                options(s, optionsPath).elems[i].kind = "item"
          /\ option \in Choices(options(s, optionsPath).elems)
    /\ arg' = [fn |-> "handleChange", option |-> option, onChange |-> onChange]
    /\ res' = [calls |-> onChangeCalls(option, onChange)]
    /\ UNCHANGED << endpoint, mounted, props, inputValue, focusedInput, seen,
                    cache, net, nfetch, nfail, issued >>

InitSelect ==
    /\ endpoint \in [url : Urls, searchable : BOOLEAN]
    /\ Unmounted
    /\ arg = [fn |-> "none", option |-> [kind |-> "null", items |-> << >>],
              onChange |-> FALSE]
    /\ res = [calls |-> << >>]

\* the selector with its data arriving: mounted once, no call fails
NextSelect ==
    \/ \E s \in Selectors, p \in PropsSet : Mount(s, p)
    \/ \E s \in Selectors : handleFocus(s)
    \/ \E s \in Selectors, t \in Texts : onInputChange(s, t)
    \/ \E s \in Selectors, l \in ListGeometries : handleScroll(s, l)
    \/ \E s \in Selectors : Render(s)
    \/ \E c \in net, more \in BOOLEAN : RespondOk(c, more)
    \/ \E s \in Selectors :
          \E option \in UNION {Choices(options(s, op).elems) : op \in BOOLEAN},
             onChange \in BOOLEAN : handleChange(s, option, onChange)

SpecSelect == InitSelect /\ [][NextSelect]_vars

(***************************************************************************)
(* C17  Selection report.  A selection of one option, or of a list of      *)
(* options, makes exactly one call of the host's onChange, with the value  *)
(* field of the option and the option, or with the list of the value       *)
(* fields, as long as the list of options and in its order, and the list.  *)
(* The selection changes neither the loaded data, nor the options, nor     *)
(* focusedInput, nor what is loaded or being fetched of the pages.         *)
(***************************************************************************)
C17_Selection ==
    (arg' # arg \/ res' # res) =>
        /\ (arg'.option.kind # "null" /\ arg'.onChange) =>
              /\ Len(res'.calls) = 1
              /\ res'.calls[1].option = arg'.option
              /\ Len(res'.calls[1].values) = Len(arg'.option.items)
              /\ \A i \in DOMAIN arg'.option.items :
                    res'.calls[1].values[i] = valueFieldOf(arg'.option.items[i])
        /\ UNCHANGED << mounted, props, inputValue, focusedInput, seen, cache, net,
                        nfetch, nfail, issued >>
        /\ \A s \in Selectors, optionsPath \in BOOLEAN :
              (options(s, optionsPath))' = options(s, optionsPath)

====
